---- MODULE Spec2Model ----
(***************************************************************************)
(* The Polaris automation scripts of dnester/demo-repo as one state        *)
(* machine: a run of one of the six scripts, from the existence checks     *)
(* over authentication and pagination to the exports.                      *)
(*                                                                         *)
(*   getProjectProperties       src/unnamed/part_000                       *)
(*   getUsersList               src/unnamed/part_001, lines 1-326          *)
(*   getDetailsList             src/unnamed/part_001, lines 329-667        *)
(*   setProjectProperties       src/src/setProjectProperties.mjs, 1-173    *)
(*   fetchBranches              src/src/setProjectProperties.mjs, 177-411  *)
(*   getProjectUserInformation  src/src/getProjectUserInformation.mjs      *)
(*                                                                         *)
(* Strings the code inspects (prompt answers, credentials, cookies) are    *)
(* sequences of one-character strings; strings it only passes on (paths,   *)
(* names) are TLA+ strings or numbers.                                     *)
(***************************************************************************)
EXTENDS Integers, Sequences, FiniteSets, TLC

VARIABLES
  script,       \* which script this run executes
  files,        \* the working directory: path -> [state, data]
  initial,      \* the paths that existed when the run started
  config,       \* config.json: [readable, password, accesstoken]
  server,       \* the remote API: [projects, users, branches, branchLimit, bare, auth]
  stage,        \* position in Stages(script)
  outcome,      \* "running" | "success" | "declined" | "aborted"
  caught,       \* the error the outer catch block received: [error, at]
  rlClosed,     \* rl.close() has been called
  authFlow,     \* authConfig: "password" | "token" | "none"
  token,        \* the bearer token
  requests,     \* every network request issued, in order
  prompts,      \* every prompt answered, in order: [path, answer]
  deleted,      \* paths unlinked by this run
  written,      \* paths written by this run
  offset,       \* the pagination offset
  idx,          \* the position of a for-of loop over allProjects
  allProjects,
  allUsers,
  allBranches,
  allDetails,   \* allUsers (usersList) / allDetails / projectDetails
  allGroups     \* allGroups of the usersList script

vars == <<script, files, initial, config, server, stage, outcome, caught,
          rlClosed, authFlow, token, requests, prompts, deleted, written,
          offset, idx, allProjects, allUsers, allBranches, allDetails,
          allGroups>>

(***************************************************************************)
(* Bounds of the exploration.                                              *)
(***************************************************************************)
\* full pages of a page-size-5 collection
MaxFullPages == 3
\* full pages of a page-size-50 or page-size-500 collection
MaxLargePages == 1
\* items of the short last page
ShortPage == 3
\* the remote API may fail any of the first MaxFaultDepth requests of a run
MaxFaultDepth == 5
\* projects in a projectList.json left by an earlier run
MaxOldProjects == 2

(***************************************************************************)
(* Program constants.                                                      *)
(***************************************************************************)
ProjectLimit == 5
DetailsProjectLimit == 500
UserLimit == 50
BranchLimit == 500

Min(a, b) == IF a < b THEN a ELSE b
Max(a, b) == IF a > b THEN a ELSE b

(***************************************************************************)
(* String primitives of the JavaScript runtime.                            *)
(***************************************************************************)
ToLowerCase(s) ==
  [i \in DOMAIN s |->
     CASE s[i] = "Y" -> "y"
       [] s[i] = "E" -> "e"
       [] s[i] = "S" -> "s"
       [] s[i] = "N" -> "n"
       [] s[i] = "O" -> "o"
       [] OTHER -> s[i]]

IsWhiteSpace(c) == c \in {" ", "\t", "\n"}

RECURSIVE TrimStart(_)
TrimStart(s) ==
  IF s # <<>> /\ IsWhiteSpace(Head(s)) THEN TrimStart(Tail(s)) ELSE s

RECURSIVE TrimEnd(_)
TrimEnd(s) ==
  IF s # <<>> /\ IsWhiteSpace(s[Len(s)])
  THEN TrimEnd(SubSeq(s, 1, Len(s) - 1))
  ELSE s

Trim(s) == TrimEnd(TrimStart(s))

StartsWith(s, p) == Len(s) >= Len(p) /\ SubSeq(s, 1, Len(p)) = p

\* s.split(sep): the segments of s between the occurrences of the character sep
RECURSIVE Split(_, _)
Split(s, sep) ==
  IF \A i \in DOMAIN s : s[i] # sep
  THEN <<s>>
  ELSE LET k == CHOOSE i \in DOMAIN s : s[i] = sep /\ \A j \in 1..(i - 1) : s[j] # sep
       IN  <<SubSeq(s, 1, k - 1)>> \o Split(SubSeq(s, k + 1, Len(s)), sep)

(***************************************************************************)
(* The prompt: ['yes', 'y'].includes(answer.toLowerCase())                 *)
(***************************************************************************)
IsAffirmativeLoose(answer) ==
  answer # <<>> /\ ToLowerCase(answer)[1] = "y"

IsAffirmative(answer) ==
  ToLowerCase(answer) \in {<<"y", "e", "s">>, <<"y">>}

Answers ==
  { <<"y">>, <<"Y", "E", "S">>, <<"n", "o">>, <<>>, <<"y", "e">>,
    <<"y", "e", "s", " ">>, <<"Y", "n">> }

(***************************************************************************)
(* Credential selection.  A configuration field is [present, text]; an     *)
(* absent field is undefined in JavaScript.                                *)
(***************************************************************************)
Absent == [present |-> FALSE, text |-> <<>>]
Field(t) == [present |-> TRUE, text |-> t]

\* config.password && config.password.trim() !== ""
IsProvidedUntrimmed(f) == f.present /\ f.text # <<>>

IsProvided(f) == f.present /\ f.text # <<>> /\ Trim(f.text) # <<>>

ResolveCredential(c) ==
  IF IsProvided(c.password) THEN "password"
  ELSE IF IsProvided(c.accesstoken) THEN "token"
  ELSE "none"

PasswordValues == {Field(<<" ">>), Field(<<"p", "w">>)}
TokenValues == {Field(<<>>), Field(<<"k">>)}

Configs ==
  { [readable |-> TRUE, password |-> p, accesstoken |-> t] :
      p \in PasswordValues, t \in TokenValues }
  \cup { [readable |-> TRUE, password |-> Absent, accesstoken |-> Absent],
         [readable |-> TRUE, password |-> Field(<<>>), accesstoken |-> Field(<<" ", "\t">>)],
         [readable |-> FALSE, password |-> Absent, accesstoken |-> Absent] }

(***************************************************************************)
(* The HTTP transport (axios): a response whose status is outside 2xx      *)
(* rejects the request's promise.                                          *)
(***************************************************************************)
Statuses == {200, 204, 500}
ValidateStatus(status) == status >= 200 /\ status < 300

\* the statuses the API may answer the next request with
Answerable == IF Len(requests) < MaxFaultDepth THEN Statuses ELSE {200}

(***************************************************************************)
(* Token extraction from the authentication response.                      *)
(***************************************************************************)
AccessTokenPrefix ==
  <<"a", "c", "c", "e", "s", "s", "_", "t", "o", "k", "e", "n", "=">>

NoCookies == [present |-> FALSE, list |-> <<>>]
Cookies(l) == [present |-> TRUE, list |-> l]

\* the token of the set-cookie header; <<>> stands for undefined or ""
CookieToken(cookies) ==
  IF ~cookies.present THEN <<>>
  ELSE LET hits == { i \in DOMAIN cookies.list :
                       StartsWith(cookies.list[i], AccessTokenPrefix) }
       IN  IF hits = {} THEN <<>>
           ELSE LET first == CHOOSE i \in hits : \A j \in hits : i <= j
                IN  Split(Split(cookies.list[first], ";")[1], "=")[2]

ExtractToken(resp) ==
  IF CookieToken(resp.cookies) # <<>> THEN CookieToken(resp.cookies)
  ELSE IF resp.jwt.present /\ resp.jwt.text # <<>> THEN resp.jwt.text
  ELSE <<>>

\* the responses every run is explored with: the token in a cookie, no
\* token at all, a rejected request
BasicResponses ==
  { [status |-> 200,
     cookies |-> Cookies(<< <<"s", "=", "1">>,
                            AccessTokenPrefix \o <<"T", ";", "P">> >>),
     jwt |-> Absent],
    [status |-> 200, cookies |-> Cookies(<< AccessTokenPrefix >>), jwt |-> Absent],
    [status |-> 200, cookies |-> Cookies(<< <<"s", "=", "1">> >>), jwt |-> Absent],
    [status |-> 500, cookies |-> NoCookies, jwt |-> Absent] }

\* the responses the token extraction is explored with
AuthResponses ==
  BasicResponses \cup
  { [status |-> 200, cookies |-> NoCookies, jwt |-> Field(<<"T">>)],
    [status |-> 200,
     cookies |-> Cookies(<< AccessTokenPrefix \o <<"T">> >>),
     jwt |-> Field(<<"J">>)],
    [status |-> 200,
     cookies |-> Cookies(<< AccessTokenPrefix \o <<"T", "=", "=", ";", "P">> >>),
     jwt |-> Field(<<"J">>)],
    [status |-> 200,
     cookies |-> Cookies(<< AccessTokenPrefix \o <<";", "P">> >>),
     jwt |-> Field(<<"J">>)],
    [status |-> 200,
     cookies |-> Cookies(<< AccessTokenPrefix \o <<"A", ";", "P">>,
                            AccessTokenPrefix \o <<"T">> >>),
     jwt |-> Absent] }

(***************************************************************************)
(* The remote API.  A project identifier is [idx, n]: with idx it stands   *)
(* for the decimal string of n (an integer-like property key), without     *)
(* for a non-numeric string such as a UUID.                                *)
(***************************************************************************)
Uuid(n) == [idx |-> FALSE, n |-> n]
IndexKey(n) == [idx |-> TRUE, n |-> n]

ServerProject(i) ==
  [id |-> Uuid(i),
   name |-> i,
   type |-> "projects",
   properties |-> IF i % 2 = 0 THEN <<>> ELSE << <<"owner", "team">> >>,
   branches |-> i]

\* a project whose attributes carry no properties mapping
BareProject(i) ==
  [id |-> Uuid(i), name |-> i, type |-> "projects", branches |-> i]

ServerUser(i) ==
  [id |-> i,
   name |-> i,
   email |-> i,
   groups |-> CASE i % 3 = 0 -> <<>>
                [] i % 3 = 1 -> <<"g1">>
                [] OTHER -> <<"g1", "g2">>]

ServerBranch(i) == [id |-> i, name |-> i, project |-> Uuid(i % 3)]

ServerItem(coll, i) ==
  CASE coll = "projects" ->
         IF i = server.bare THEN BareProject(i) ELSE ServerProject(i)
    [] coll = "users" -> ServerUser(i)
    [] OTHER -> ServerBranch(i)

\* the page a stable collection of n items yields for page[limit], page[offset]
ServePage(coll, n, limit, off) ==
  [i \in 1..Max(0, Min(limit, n - off)) |-> ServerItem(coll, off + i)]

UserResource(id, groups) ==
  [type |-> "users", id |-> id, name |-> id, email |-> id, groups |-> groups]
GroupResource(id, groupname) ==
  [type |-> "groups", id |-> id, name |-> groupname, email |-> 0, groups |-> <<>>]

\* the included resources of a project's role assignments
Included(pid) ==
  CASE pid.n % 3 = 1 ->
         << UserResource(pid.n, <<"g1">>), GroupResource("g1", "Group1") >>
    [] pid.n % 3 = 2 ->
         << UserResource(pid.n, <<>>), UserResource(pid.n + 1, <<"g2", "g1">>),
            GroupResource("g1", "Group1") >>
    [] OTHER -> << GroupResource("g2", "Group2"), GroupResource("g1", "Group1") >>

Sizes(limit, pages) == { k * limit + r : k \in {0, pages}, r \in {0, ShortPage} }

(***************************************************************************)
(* The scripts and their steps.                                            *)
(***************************************************************************)
GP == "getProjectProperties"
UL == "getUsersList"
DL == "getDetailsList"
SP == "setProjectProperties"
FB == "fetchBranches"
PD == "getProjectUserInformation"
Scripts == {GP, UL, DL, SP, FB, PD}

ProjectListPath == "projectList.json"
ProjectListCsv == "projectList.csv"
BranchesListPath == "branchesList.json"
OutputCsvPath == "projectBranches.csv"
ProjectDetailsCsv == "projectDetails.csv"
UsersListJson == "usersList.json"
UsersListCsv == "usersList.csv"
GroupsListJson == "groupsList.json"
DetailsListJson == "detailsList.json"
DetailsListCsv == "detailsList.csv"

Paths ==
  {ProjectListPath, ProjectListCsv, BranchesListPath, OutputCsvPath,
   ProjectDetailsCsv, UsersListJson, UsersListCsv, GroupsListJson,
   DetailsListJson, DetailsListCsv}

St(op, arg) == [op |-> op, arg |-> arg]

Stages(s) ==
  CASE s = GP ->
         << St("check", ProjectListPath), St("check", ProjectListCsv),
            St("config", ""), St("auth", ""), St("page", "projects"),
            St("write", ProjectListPath), St("write", ProjectListCsv) >>
    [] s = UL ->
         << St("check", ProjectListPath), St("check", ProjectListCsv),
            St("config", ""), St("auth", ""), St("page", "projects"),
            St("write", ProjectListPath), St("roles", ""),
            St("write", UsersListJson), St("write", UsersListCsv),
            St("write", GroupsListJson) >>
    [] s = DL ->
         << St("readExisting", ProjectListPath),
            St("config", ""), St("auth", ""), St("page", "projects"),
            St("write", ProjectListPath),
            St("config", ""), St("auth", ""), St("roles", ""),
            St("write", DetailsListJson), St("write", DetailsListCsv) >>
    [] s = SP ->
         << St("config", ""), St("auth", ""),
            St("readProjects", ProjectListPath), St("setProps", "") >>
    [] s = FB ->
         << St("check", BranchesListPath),
            St("config", ""), St("auth", ""), St("page", "branches"),
            St("write", BranchesListPath), St("associate", "") >>
    [] OTHER ->
         << St("check", ProjectListPath), St("check", ProjectDetailsCsv),
            St("config", ""), St("auth", ""), St("page", "projects"),
            St("write", ProjectListPath), St("page", "users"),
            St("roles", ""), St("write", ProjectDetailsCsv) >>

\* the step of the detailsList script that follows the inner try/catch
DetailsSecondConfig == 6

\* no script closes a readline interface
HasReadlineNone(s) == FALSE

\* the scripts that create a readline interface
HasReadline(s) == s # SP

\* the page size of a pagination loop
LoopLimit(s, coll) ==
  CASE coll = "users" -> UserLimit
    [] coll = "branches" -> BranchLimit
    [] s = DL -> DetailsProjectLimit
    [] OTHER -> ProjectLimit

\* the page[limit] the server receives
ServedLimit(s, coll) ==
  IF coll = "branches" THEN server.branchLimit ELSE LoopLimit(s, coll)

MorePagesNonEmpty(len, limit) == len > 0
\* moreProjects = projectsData.length === limit
MorePages(len, limit) == len = limit

\* the offset left where it was
NextOffsetStuck(off, limit) == off

\* offset += limit
NextOffset(off, limit) == off + limit

\* no pagination loop has a try/catch of its own
PageErrorsCaughtNever(s) == FALSE

\* the scripts whose pagination loop has its own try/catch
PageErrorsCaught(s) == s = FB

(***************************************************************************)
(* Record shaping and correlation.                                         *)
(***************************************************************************)
Placeholder == << <<"key", "value">> >>

HasProperties(project) == "properties" \in DOMAIN project

\* Object.keys(project.attributes.properties) throws a TypeError when the
\* project has no properties mapping
FormatThrows(s, coll, page) ==
  /\ s = GP
  /\ coll = "projects"
  /\ \E i \in DOMAIN page : ~HasProperties(page[i])

\* the record of a fetched project with the remote properties as they are
FormatProjectAsIs(s, project) ==
  IF s = GP
  THEN [id |-> project.id,
        type |-> project.type,
        properties |-> project.properties,
        name |-> project.name,
        branches |-> project.branches]
  ELSE [id |-> project.id, name |-> project.name]

\* the record a script keeps of a fetched project
FormatProject(s, project) ==
  IF s = GP
  THEN [id |-> project.id,
        type |-> project.type,
        properties |-> IF Len(project.properties) # 0
                       THEN project.properties ELSE Placeholder,
        name |-> project.name,
        branches |-> project.branches]
  ELSE [id |-> project.id, name |-> project.name]

FormatUser(user) ==
  [id |-> user.id, name |-> user.name, email |-> user.email,
   groupIds |-> user.groups]

FormatItem(s, coll, item) ==
  CASE coll = "projects" -> FormatProject(s, item)
    [] coll = "users" -> FormatUser(item)
    [] OTHER -> item

FormatPage(s, coll, page) == [i \in DOMAIN page |-> FormatItem(s, coll, page[i])]

IsUserResource(r) == r.type = "users"
IsGroupResource(r) == r.type = "groups"

\* the name of the first included group that any entry of the user's groups
\* relationship identifies
GroupNameOfAny(user, groups) ==
  LET hits == { i \in DOMAIN groups :
                  \E k \in DOMAIN user.groups : groups[i].id = user.groups[k] }
  IN  IF hits = {} THEN "N/A"
      ELSE groups[CHOOSE i \in hits : \A j \in hits : i <= j].name

\* groups.find(group => group.id === user.relationships.groups.data[0]?.id)
\*   ?.attributes.groupname || 'N/A'
GroupNameOf(user, groups) ==
  IF user.groups = <<>> THEN "N/A"
  ELSE LET hits == { i \in DOMAIN groups : groups[i].id = user.groups[1] }
       IN  IF hits = {} THEN "N/A"
           ELSE groups[CHOOSE i \in hits : \A j \in hits : i <= j].name

\* usersList: the user records of one role-assignment response
UsersListRecords(project, included) ==
  LET groups == SelectSeq(included, IsGroupResource)
      users == SelectSeq(included, IsUserResource)
  IN  [i \in DOMAIN users |->
         [projectName |-> project.name, projectId |-> project.id,
          name |-> users[i].name, email |-> users[i].email,
          group |-> GroupNameOf(users[i], groups)]]

\* detailsList: the user records, then the group records
DetailsListRecords(project, included) ==
  LET groups == SelectSeq(included, IsGroupResource)
      users == SelectSeq(included, IsUserResource)
  IN  [i \in DOMAIN users |->
         [projectName |-> project.name, projectId |-> project.id,
          userType |-> "User", name |-> users[i].name]]
      \o
      [i \in DOMAIN groups |->
         [projectName |-> project.name, projectId |-> project.id,
          userType |-> "GroupName", name |-> 0]]

RECURSIVE Flatten(_)
Flatten(ss) == IF ss = <<>> THEN <<>> ELSE Head(ss) \o Flatten(Tail(ss))

\* the users whose first groupIds entry is groupId
MembersOfFirst(users, groupId) ==
  LET Holds(u) == u.groupIds # <<>> /\ u.groupIds[1] = groupId
  IN  SelectSeq(users, Holds)

\* allGroups[groupId] after the loops over allUsers and user.groupIds: one
\* push of the user for every entry of groupIds that equals groupId, user
\* by user and entry by entry
MembersOf(users, groupId) ==
  LET width == IF users = <<>> THEN 0
               ELSE LET lens == { Len(users[i].groupIds) : i \in DOMAIN users }
                    IN  CHOOSE w \in lens : \A l \in lens : l <= w
      User(p) == ((p - 1) \div width) + 1
      Entry(p) == ((p - 1) % width) + 1
      Pushed(p) == /\ Entry(p) <= Len(users[User(p)].groupIds)
                   /\ users[User(p)].groupIds[Entry(p)] = groupId
      pushes == SelectSeq([p \in 1..(Len(users) * width) |-> p], Pushed)
  IN  [m \in DOMAIN pushes |-> users[User(pushes[m])]]

\* getProjectUserInformation: the entry pushed to projectDetails
ProjectDetail(project, included, users) ==
  LET groups == SelectSeq(included, IsGroupResource)
      Individual(r) == IsUserResource(r) /\ r.groups = <<>>
      firsts == { i \in DOMAIN groups :
                    \A j \in 1..(i - 1) : groups[j].id # groups[i].id }
      Last(i) == CHOOSE j \in DOMAIN groups :
                   /\ groups[j].id = groups[i].id
                   /\ \A k \in DOMAIN groups : groups[k].id = groups[i].id => k <= j
      Keys == SelectSeq([i \in DOMAIN groups |-> i], LAMBDA i : i \in firsts)
  IN  [projectId |-> project.id,
       projectName |-> project.name,
       groups |-> [k \in DOMAIN Keys |->
                     [id |-> groups[Keys[k]].id,
                      groupName |-> groups[Last(Keys[k])].name,
                      members |-> MembersOf(users, groups[Keys[k]].id)]],
       individualUsers |->
         LET lone == SelectSeq(included, Individual)
         IN  [i \in DOMAIN lone |-> [name |-> lone[i].name, email |-> lone[i].email]]]

\* the rows of projectDetails.csv
ProjectDetailsRows(details) ==
  LET GroupRows(d, g) ==
        [m \in DOMAIN g.members |->
           [projectId |-> d.projectId, groupName |-> g.groupName,
            memberName |-> g.members[m].name, individual |-> FALSE]]
      Rows(d) ==
        Flatten([k \in DOMAIN d.groups |-> GroupRows(d, d.groups[k])])
        \o
        [u \in DOMAIN d.individualUsers |->
           [projectId |-> d.projectId, groupName |-> "N/A",
            memberName |-> d.individualUsers[u].name, individual |-> TRUE]]
  IN  Flatten([i \in DOMAIN details |-> Rows(details[i])])

\* allGroups.map(group => group.attributes.groupname), repetitions kept
GroupNamesAll(groups) == [i \in DOMAIN groups |-> groups[i].name]

\* Array.from(new Set(allGroups.map(group => group.attributes.groupname)))
UniqueGroupNames(groups) ==
  LET names == [i \in DOMAIN groups |-> groups[i].name]
      IsFirst(i) == \A j \in 1..(i - 1) : names[j] # names[i]
      keep == SelectSeq([i \in DOMAIN names |-> i], IsFirst)
  IN  [k \in DOMAIN keep |-> names[keep[k]]]

\* JSON.stringify of a properties mapping
Stringify(properties) == [json |-> properties]

ProjectCsvRows(projects) ==
  [i \in DOMAIN projects |->
     [projects[i] EXCEPT !.properties = Stringify(projects[i].properties)]]

(***************************************************************************)
(* projectList.json.  The text of a JSON object is the sequence of its     *)
(* members, [key, value], in the order JSON.stringify writes them: the     *)
(* order in which the object literal lists the keys.  JSON.parse builds    *)
(* the object back: of two members with one key the later value stands at  *)
(* the earlier position.                                                   *)
(***************************************************************************)
JsonMember(key, value) == [key |-> key, value |-> value]

\* the keys of a project record, in the order of the object literal
KeyOrder == <<"id", "type", "properties", "name", "branches">>

\* the text of a properties mapping
JsonObject(pairs) == [i \in DOMAIN pairs |-> JsonMember(pairs[i][1], pairs[i][2])]

\* the text of a project record
ProjectText(project) ==
  LET keys == SelectSeq(KeyOrder, LAMBDA k : k \in DOMAIN project)
  IN  [i \in DOMAIN keys |->
         JsonMember(keys[i],
                    IF keys[i] = "properties"
                    THEN JsonObject(project[keys[i]])
                    ELSE project[keys[i]])]

\* JSON.stringify(allProjects, null, 2)
JsonStringify(projects) == [i \in DOMAIN projects |-> ProjectText(projects[i])]

\* the value JSON.parse gives the key of an object text
MemberValue(members, key) ==
  members[CHOOSE i \in DOMAIN members :
            /\ members[i].key = key
            /\ \A j \in DOMAIN members : members[j].key = key => j <= i].value

\* a properties mapping with the keys and the values exchanged
ParseObjectSwapped(members) ==
  LET IsFirst(i) == \A j \in 1..(i - 1) : members[j].key # members[i].key
      keep == SelectSeq([i \in DOMAIN members |-> i], IsFirst)
  IN  [k \in DOMAIN keep |->
         << MemberValue(members, members[keep[k]].key), members[keep[k]].key >>]

\* the properties mapping of an object text
ParseObject(members) ==
  LET IsFirst(i) == \A j \in 1..(i - 1) : members[j].key # members[i].key
      keep == SelectSeq([i \in DOMAIN members |-> i], IsFirst)
  IN  [k \in DOMAIN keep |->
         << members[keep[k]].key, MemberValue(members, members[keep[k]].key) >>]

\* the project record of an object text
ParseProject(members) ==
  [key \in { members[i].key : i \in DOMAIN members } |->
     IF key = "properties"
     THEN ParseObject(MemberValue(members, key))
     ELSE MemberValue(members, key)]

\* JSON.parse(projectListData)
JsonParse(text) == [i \in DOMAIN text |-> ParseProject(text[i])]

(***************************************************************************)
(* associateProjectsToBranches.  projectMap is a JavaScript object keyed    *)
(* by project id: a repeated id keeps its first position and takes the     *)
(* last name; Object.values lists integer-like keys first, in ascending    *)
(* order, then the other keys in insertion order.                          *)
(***************************************************************************)
RECURSIVE Ascending(_)
Ascending(S) ==
  IF S = {} THEN <<>>
  ELSE LET m == CHOOSE x \in S : \A y \in S : x <= y
       IN  <<m>> \o Ascending(S \ {m})

\* the keys of projectMap in the order Object.values visits them
InsertionOrderKeys(projectList) ==
  LET IsFirst(i) == \A j \in 1..(i - 1) : projectList[j].id # projectList[i].id
      keep == SelectSeq([i \in DOMAIN projectList |-> i], IsFirst)
  IN  [k \in DOMAIN keep |-> projectList[keep[k]].id]

MapKeys(projectList) ==
  LET ids == InsertionOrderKeys(projectList)
      IsOther(id) == ~id.idx
      nums == { ids[k].n : k \in { j \in DOMAIN ids : ids[j].idx } }
      sorted == Ascending(nums)
  IN  [k \in DOMAIN sorted |-> IndexKey(sorted[k])] \o SelectSeq(ids, IsOther)

\* projectMap[id].name
MapName(projectList, id) ==
  projectList[CHOOSE i \in DOMAIN projectList :
                /\ projectList[i].id = id
                /\ \A j \in DOMAIN projectList : projectList[j].id = id => j <= i].name

\* projectMap[id].branches, ignoring the project the branch belongs to
MapBranchesAnyProject(branches, id) == [i \in DOMAIN branches |-> branches[i].name]

\* projectMap[id].branches
MapBranches(branches, id) ==
  LET Owned(b) == b.project = id
      own == SelectSeq(branches, Owned)
  IN  [i \in DOMAIN own |-> own[i].name]

\* csvData
CsvData(projectList, branches) ==
  LET keys == MapKeys(projectList)
  IN  [k \in DOMAIN keys |->
         [projectId |-> keys[k],
          projectName |-> MapName(projectList, keys[k]),
          branchNames |-> MapBranches(branches, keys[k])]]

\* the branch columns of the first record only
BranchColumnsFirst(csvData) ==
  IF csvData = <<>> THEN 0 ELSE Len(csvData[1].branchNames)

\* Math.max(...csvData.map(project => Object.keys(project).length - 1)),
\* as Array.from({ length }) reads it
BranchColumns(csvData) ==
  IF csvData = <<>> THEN 0
  ELSE LET counts == { Len(csvData[i].branchNames) : i \in DOMAIN csvData }
       IN  CHOOSE m \in counts : \A c \in counts : c <= m

Cell(v) == [blank |-> FALSE, v |-> v]
BlankCell == [blank |-> TRUE, v |-> 0]

\* the fields option of parseAsync: 'projectName', then `branchName${i + 1}`
ProjectNameField == [field |-> "projectName", index |-> 0]
BranchField(i) == [field |-> "branchName", index |-> i]

AssociateFields(projectList, branches) ==
  <<ProjectNameField>> \o
  [i \in 1..BranchColumns(CsvData(projectList, branches)) |-> BranchField(i)]

\* a CSV file written with a header line
CsvFile(fields, rows) == [state |-> "new", data |-> rows, fields |-> fields]

\* the rows of projectBranches.csv
AssociateRows(projectList, branches) ==
  LET csvData == CsvData(projectList, branches)
      m == BranchColumns(csvData)
  IN  [i \in DOMAIN csvData |->
         [projectName |-> csvData[i].projectName,
          cells |-> [c \in 1..m |->
                       IF c <= Len(csvData[i].branchNames)
                       THEN Cell(csvData[i].branchNames[c])
                       ELSE BlankCell]]]

(***************************************************************************)
(* The state a run starts in.                                              *)
(***************************************************************************)
NoFile == [state |-> "absent", data |-> <<>>]
OldFile(data) == [state |-> "old", data |-> data]
NewFile(data) == [state |-> "new", data |-> data]

\* the projects an earlier getProjectProperties run wrote to projectList.json
OldProjects(n) == [i \in 1..n |-> FormatProject(GP, ServerProject(i))]

\* the files whose presence at start a run of the script can depend on
Watched(s) ==
  CASE s = GP -> {ProjectListPath, ProjectListCsv}
    [] s = UL -> {ProjectListPath, ProjectListCsv, UsersListJson}
    [] s = DL -> {ProjectListPath, DetailsListJson}
    [] s = SP -> {ProjectListPath}
    [] s = FB -> {BranchesListPath, ProjectListPath, OutputCsvPath}
    [] OTHER -> {ProjectListPath, ProjectDetailsCsv}

OldSizes(s) == IF s \in {DL, SP, FB} THEN 0..MaxOldProjects ELSE {1}

InitialFiles(s) ==
  { [p \in Paths |->
       IF p \notin present THEN NoFile
       ELSE IF p = ProjectListPath THEN OldFile(JsonStringify(OldProjects(n)))
       ELSE OldFile(<<>>)] :
      present \in SUBSET Watched(s), n \in OldSizes(s) }

Servers(s) ==
  { [projects |-> np, users |-> nu, branches |-> nb, branchLimit |-> bl,
     bare |-> b, auth |-> BasicResponses] :
      np \in (CASE s \in {GP, UL, PD} -> Sizes(ProjectLimit, MaxFullPages)
                [] s = DL -> Sizes(DetailsProjectLimit, MaxLargePages)
                [] OTHER -> {0}),
      nu \in (IF s = PD THEN Sizes(UserLimit, MaxLargePages) ELSE {0}),
      nb \in (IF s = FB THEN Sizes(BranchLimit, MaxLargePages) ELSE {0}),
      bl \in (IF s = FB THEN {BranchLimit, 100} ELSE {BranchLimit}),
      b \in (IF s = GP THEN {0, 2} ELSE {0}) }

NoError == [error |-> "none", at |-> "none"]
NoTarget == [idx |-> FALSE, n |-> -1]

Init ==
  /\ script \in Scripts
  /\ files \in InitialFiles(script)
  /\ initial = { p \in Paths : files[p].state # "absent" }
  /\ config \in Configs
  /\ server \in Servers(script)
  /\ stage = 1
  /\ outcome = "running"
  /\ caught = NoError
  /\ rlClosed = FALSE
  /\ authFlow = "none"
  /\ token = <<>>
  /\ requests = <<>>
  /\ prompts = <<>>
  /\ deleted = {}
  /\ written = {}
  /\ offset = 0
  /\ idx = 1
  /\ allProjects = <<>>
  /\ allUsers = <<>>
  /\ allBranches = <<>>
  /\ allDetails = <<>>
  /\ allGroups = <<>>

(***************************************************************************)
(* Control.                                                                *)
(***************************************************************************)
Running == outcome = "running" /\ stage <= Len(Stages(script))
Cur == Stages(script)[stage]

\* control passes to step k; past the last step the run ends in the
\* finally block
Goto(k) ==
  /\ stage' = k
  /\ outcome' = IF k > Len(Stages(script)) THEN "success" ELSE "running"
  /\ rlClosed' = IF k > Len(Stages(script)) THEN HasReadline(script) ELSE rlClosed
  /\ idx' = 1
  /\ caught' = caught

\* an exception reaches the outer catch block, then finally
Abort(error) ==
  /\ outcome' = "aborted"
  /\ caught' = [error |-> error, at |-> Cur.op]
  /\ rlClosed' = HasReadline(script)
  /\ UNCHANGED <<stage, idx>>

Request(kind, off, target, status) ==
  [kind |-> kind, offset |-> off, target |-> target, status |-> status]

\* the authentication request with the response it got
AuthRequest(flow, resp) ==
  [kind |-> flow, offset |-> 0, target |-> NoTarget, status |-> resp.status,
   cookies |-> resp.cookies, jwt |-> resp.jwt]

\* a property-set POST that carries the placeholder pair for every project
PropertyRequestPlaceholder(project, status) ==
  [kind |-> "setProperty", offset |-> 0, target |-> project.id, status |-> status,
   properties |-> Placeholder]

\* the property-set POST: data { projects: [project.id], properties }
PropertyRequest(project, status) ==
  [kind |-> "setProperty", offset |-> 0, target |-> project.id, status |-> status,
   properties |-> project.properties]

accum == <<allProjects, allUsers, allBranches, allDetails, allGroups>>
env == <<script, initial, config, server>>

(***************************************************************************)
(* The steps.                                                              *)
(***************************************************************************)
\* fs.access, the prompt, fs.unlink
CheckExisting ==
  /\ Running /\ Cur.op = "check"
  /\ IF files[Cur.arg].state = "absent"
     THEN /\ Goto(stage + 1)
          /\ UNCHANGED <<files, prompts, deleted>>
     ELSE \E answer \in Answers :
            /\ prompts' = Append(prompts, [path |-> Cur.arg, answer |-> answer])
            /\ IF IsAffirmative(answer)
               THEN /\ files' = [files EXCEPT ![Cur.arg] = NoFile]
                    /\ deleted' = deleted \cup {Cur.arg}
                    /\ Goto(stage + 1)
               ELSE /\ outcome' = "declined"
                    /\ rlClosed' = TRUE
                    /\ UNCHANGED <<files, deleted, stage, idx, caught>>
  /\ UNCHANGED <<env, authFlow, token, requests, written, offset, accum>>

\* detailsList fetching the projects whether projectList.json exists or not
ReadExistingIgnored ==
  /\ Running /\ Cur.op = "readExisting"
  /\ Goto(stage + 1)
  /\ UNCHANGED <<env, files, authFlow, token, requests, prompts, deleted,
                 written, offset, accum>>

\* detailsList: fs.access and fs.readFile of projectList.json
ReadExisting ==
  /\ Running /\ Cur.op = "readExisting"
  /\ IF files[Cur.arg].state # "absent"
     THEN /\ allProjects' = JsonParse(files[Cur.arg].data)
          /\ Goto(DetailsSecondConfig)
     ELSE /\ Goto(stage + 1)
          /\ UNCHANGED allProjects
  /\ UNCHANGED <<env, files, authFlow, token, requests, prompts, deleted,
                 written, offset, allUsers, allBranches, allDetails, allGroups>>

\* fs.readFile(configPath), JSON.parse, the choice of authConfig
ReadConfig ==
  /\ Running /\ Cur.op = "config"
  /\ IF ~config.readable
     THEN Abort("IOError") /\ UNCHANGED authFlow
     ELSE IF ResolveCredential(config) = "none"
     THEN Abort("NoCredential") /\ UNCHANGED authFlow
     ELSE authFlow' = ResolveCredential(config) /\ Goto(stage + 1)
  /\ UNCHANGED <<env, files, token, requests, prompts, deleted, written,
                 offset, accum>>

\* axios.request(authConfig) and the token extraction
Authenticate ==
  /\ Running /\ Cur.op = "auth"
  /\ \E resp \in server.auth :
       /\ requests' = Append(requests, AuthRequest(authFlow, resp))
       /\ IF ~ValidateStatus(resp.status)
          THEN Abort("HttpError") /\ UNCHANGED token
          ELSE IF ExtractToken(resp) = <<>>
          THEN Abort("NoToken") /\ UNCHANGED token
          ELSE token' = ExtractToken(resp) /\ Goto(stage + 1)
  /\ UNCHANGED <<env, files, authFlow, prompts, deleted, written, offset, accum>>

\* the accumulator of a pagination loop after a page
Accumulate(coll, page) ==
  /\ allProjects' = IF coll = "projects"
                    THEN allProjects \o FormatPage(script, coll, page) ELSE allProjects
  /\ allUsers' = IF coll = "users"
                 THEN allUsers \o FormatPage(script, coll, page) ELSE allUsers
  /\ allBranches' = IF coll = "branches"
                    THEN allBranches \o FormatPage(script, coll, page) ELSE allBranches

\* one iteration of a pagination loop
FetchPage ==
  /\ Running /\ Cur.op = "page"
  /\ \E status \in Answerable :
       LET coll == Cur.arg
           limit == LoopLimit(script, coll)
           page == ServePage(coll, server[coll], ServedLimit(script, coll), offset)
       IN  /\ requests' = Append(requests, Request(coll, offset, NoTarget, status))
           /\ IF ~ValidateStatus(status)
              THEN /\ UNCHANGED <<allProjects, allUsers, allBranches, offset>>
                   /\ IF PageErrorsCaught(script)
                      THEN Goto(stage + 1)
                      ELSE Abort("HttpError")
              ELSE IF status = 200 /\ FormatThrows(script, coll, page)
              THEN /\ UNCHANGED <<allProjects, allUsers, allBranches, offset>>
                   /\ Abort("TypeError")
              ELSE IF status = 200
              THEN /\ Accumulate(coll, page)
                   /\ offset' = NextOffset(offset, limit)
                   /\ IF MorePages(Len(page), limit)
                      THEN UNCHANGED <<stage, outcome, rlClosed, idx, caught>>
                      ELSE Goto(stage + 1)
              ELSE /\ UNCHANGED <<allProjects, allUsers, allBranches, offset>>
                   /\ Goto(stage + 1)
  /\ UNCHANGED <<env, files, authFlow, token, prompts, deleted, written,
                 allDetails, allGroups>>

\* the content a script writes to a path
Content(s, path) ==
  CASE path = ProjectListPath -> JsonStringify(allProjects)
    [] path = ProjectListCsv -> ProjectCsvRows(allProjects)
    [] path = BranchesListPath -> allBranches
    [] path = GroupsListJson -> UniqueGroupNames(allGroups)
    [] path = ProjectDetailsCsv -> ProjectDetailsRows(allDetails)
    [] OTHER -> allDetails

\* fs.writeFile / csvWriter.writeRecords
WriteFile ==
  /\ Running /\ Cur.op = "write"
  /\ files' = [files EXCEPT ![Cur.arg] = NewFile(Content(script, Cur.arg))]
  /\ written' = written \cup {Cur.arg}
  /\ offset' = IF stage < Len(Stages(script)) /\ Stages(script)[stage + 1].op = "page"
               THEN 0 ELSE offset
  /\ Goto(stage + 1)
  /\ UNCHANGED <<env, authFlow, token, requests, prompts, deleted, accum>>

\* the records one successful role-assignment response adds
Correlate(s, project, included) ==
  CASE s = UL -> UsersListRecords(project, included)
    [] s = DL -> DetailsListRecords(project, included)
    [] OTHER -> << ProjectDetail(project, included, allUsers) >>

\* the scripts whose role-assignment request has its own try/catch
ItemErrorsCaught(s) == FALSE

\* one iteration of the role-assignment loop
FetchRoleAssignments ==
  /\ Running /\ Cur.op = "roles" /\ idx <= Len(allProjects)
  /\ \E status \in Answerable :
       LET project == allProjects[idx]
           included == Included(project.id)
       IN  /\ requests' = Append(requests, Request("roles", 0, project.id, status))
           /\ IF ~ValidateStatus(status) /\ ~ItemErrorsCaught(script)
              THEN Abort("HttpError") /\ UNCHANGED <<allDetails, allGroups>>
              ELSE /\ idx' = idx + 1
                   /\ UNCHANGED <<stage, outcome, rlClosed, caught>>
                   /\ IF status = 200
                      THEN /\ allDetails' = allDetails \o Correlate(script, project, included)
                           /\ allGroups' = IF script = UL
                                           THEN allGroups \o SelectSeq(included, IsGroupResource)
                                           ELSE allGroups
                      ELSE UNCHANGED <<allDetails, allGroups>>
  /\ UNCHANGED <<env, files, authFlow, token, prompts, deleted, written, offset,
                 allProjects, allUsers, allBranches>>

\* setProjectProperties: fs.readFile(projectListPath)
ReadProjects ==
  /\ Running /\ Cur.op = "readProjects"
  /\ IF files[Cur.arg].state = "absent"
     THEN Abort("IOError") /\ UNCHANGED allProjects
     ELSE allProjects' = JsonParse(files[Cur.arg].data) /\ Goto(stage + 1)
  /\ UNCHANGED <<env, files, authFlow, token, requests, prompts, deleted,
                 written, offset, allUsers, allBranches, allDetails, allGroups>>

\* one iteration of the property-set loop, with its try/catch
SetProperties ==
  /\ Running /\ Cur.op = "setProps" /\ idx <= Len(allProjects)
  /\ \E status \in Answerable :
       requests' = Append(requests, PropertyRequest(allProjects[idx], status))
  /\ idx' = idx + 1
  /\ UNCHANGED <<env, files, stage, outcome, rlClosed, caught, authFlow, token,
                 prompts, deleted, written, offset, accum>>

\* a for-of loop over allProjects is exhausted
LoopExit ==
  /\ Running /\ Cur.op \in {"roles", "setProps"} /\ idx > Len(allProjects)
  /\ Goto(stage + 1)
  /\ UNCHANGED <<env, files, authFlow, token, requests, prompts, deleted,
                 written, offset, accum>>

\* associateProjectsToBranches, with its own try/catch
Associate ==
  /\ Running /\ Cur.op = "associate"
  /\ IF files[ProjectListPath].state = "absent" \/ files[BranchesListPath].state = "absent"
     THEN UNCHANGED <<files, written>>
     ELSE /\ files' = [files EXCEPT ![OutputCsvPath] =
                         CsvFile(AssociateFields(JsonParse(files[ProjectListPath].data),
                                                 files[BranchesListPath].data),
                                 AssociateRows(JsonParse(files[ProjectListPath].data),
                                               files[BranchesListPath].data))]
          /\ written' = written \cup {OutputCsvPath}
  /\ Goto(stage + 1)
  /\ UNCHANGED <<env, authFlow, token, requests, prompts, deleted, offset, accum>>

Next ==
  \/ CheckExisting
  \/ ReadExisting
  \/ ReadConfig
  \/ Authenticate
  \/ FetchPage
  \/ WriteFile
  \/ FetchRoleAssignments
  \/ ReadProjects
  \/ SetProperties
  \/ LoopExit
  \/ Associate

Spec == Init /\ [][Next]_vars

(***************************************************************************)
(* A run under the schedule of the event loop: the operator answers every  *)
(* prompt and every request completes, so a script that can take a step    *)
(* takes it.  The runs are those of Init with a password, no credential    *)
(* or an unreadable configuration; fetchBranches joins a projectList.json  *)
(* only with a branch list of less than one page.                          *)
(***************************************************************************)
LiveConfigs ==
  { c \in Configs : /\ c.password \in {Absent, Field(<<"p", "w">>)}
                     /\ c.accesstoken \in {Absent, Field(<<>>)} }

InitLive ==
  /\ Init
  /\ config \in LiveConfigs
  /\ script = FB =>
       files[ProjectListPath].state = "absent" \/ server.branches < BranchLimit

SpecLive == InitLive /\ [][Next]_vars /\ WF_vars(Next)

(***************************************************************************)
(* The project/branch association on its own: a fetchBranches run that has *)
(* just written branchesList.json, over every small project list and       *)
(* branch list.                                                            *)
(***************************************************************************)
MaxJoinProjects == 2
MaxJoinBranches == 3

JoinIds == {Uuid(1), IndexKey(2), IndexKey(10)}
JoinProjectLists ==
  UNION { [1..n -> [id : JoinIds, name : {1, 2}]] : n \in 0..MaxJoinProjects }
JoinBranchLists ==
  UNION { { [i \in 1..n |-> [id |-> i, name |-> i, project |-> owner[i]]] :
              owner \in [1..n -> JoinIds \cup {Uuid(9)}] } :
          n \in 0..MaxJoinBranches }

InitAssociate ==
  /\ script = FB
  /\ \E projectList \in JoinProjectLists, branches \in JoinBranchLists :
       /\ files = [p \in Paths |->
                     CASE p = ProjectListPath -> OldFile(JsonStringify(projectList))
                       [] p = BranchesListPath -> NewFile(branches)
                       [] OTHER -> NoFile]
       /\ allBranches = branches
       /\ server = [projects |-> 0, users |-> 0, branches |-> Len(branches),
                    branchLimit |-> BranchLimit, bare |-> 0,
                    auth |-> BasicResponses]
  /\ initial = {ProjectListPath}
  /\ config = [readable |-> TRUE, password |-> Field(<<"p", "w">>),
               accesstoken |-> Field(<<>>)]
  /\ stage = Len(Stages(FB))
  /\ outcome = "running"
  /\ caught = NoError
  /\ rlClosed = FALSE
  /\ authFlow = "password"
  /\ token = <<"T">>
  /\ requests = << AuthRequest("password",
                               CHOOSE resp \in BasicResponses :
                                 ExtractToken(resp) # <<>>),
                   Request("branches", 0, NoTarget, 200) >>
  /\ prompts = <<>>
  /\ deleted = {}
  /\ written = {BranchesListPath}
  /\ offset = BranchLimit
  /\ idx = 1
  /\ allProjects = <<>>
  /\ allUsers = <<>>
  /\ allDetails = <<>>
  /\ allGroups = <<>>

NextAssociate == Associate

SpecAssociate == InitAssociate /\ [][NextAssociate]_vars

(***************************************************************************)
(* The authentication step on its own: a run of any script that has chosen *)
(* its authConfig and is about to send the authentication request, with an *)
(* API that may give any of AuthResponses.                                 *)
(***************************************************************************)
\* the step at which a script first authenticates
AuthStage(s) ==
  CHOOSE k \in DOMAIN Stages(s) :
    /\ Stages(s)[k].op = "auth"
    /\ \A j \in 1..(k - 1) : Stages(s)[j].op # "auth"

InitToken ==
  /\ script \in Scripts
  /\ \E n \in 0..MaxOldProjects :
       files = [p \in Paths |->
                  IF p = ProjectListPath /\ script \in {SP, FB}
                  THEN OldFile(JsonStringify(OldProjects(n)))
                  ELSE NoFile]
  /\ initial = { p \in Paths : files[p].state # "absent" }
  /\ config \in { c \in Configs : c.readable /\ ResolveCredential(c) # "none" }
  /\ server = [projects |-> 0, users |-> 0, branches |-> 0,
               branchLimit |-> BranchLimit, bare |-> 0, auth |-> AuthResponses]
  /\ stage = AuthStage(script)
  /\ outcome = "running"
  /\ caught = NoError
  /\ rlClosed = FALSE
  /\ authFlow = ResolveCredential(config)
  /\ token = <<>>
  /\ requests = <<>>
  /\ prompts = <<>>
  /\ deleted = {}
  /\ written = {}
  /\ offset = 0
  /\ idx = 1
  /\ allProjects = <<>>
  /\ allUsers = <<>>
  /\ allBranches = <<>>
  /\ allDetails = <<>>
  /\ allGroups = <<>>

NextToken == Authenticate

SpecToken == InitToken /\ [][NextToken]_vars

(***************************************************************************)
(* Properties.                                                             *)
(***************************************************************************)
Collections == {"projects", "users", "branches"}

\* the step of the running script that paginates coll, 0 if there is none
PageStage(coll) ==
  LET hits == { k \in DOMAIN Stages(script) :
                  Stages(script)[k] = St("page", coll) }
  IN  IF hits = {} THEN 0 ELSE CHOOSE k \in hits : TRUE

RequestsOf(kind) == SelectSeq(requests, LAMBDA r : r.kind = kind)

Accumulated(coll) ==
  CASE coll = "projects" -> allProjects
    [] coll = "users" -> allUsers
    [] OTHER -> allBranches

\* the pagination loop over coll has just ended and every page came with
\* status 200
LoopCompleted(coll) ==
  /\ PageStage(coll) # 0
  /\ stage = PageStage(coll) + 1
  /\ LET reqs == RequestsOf(coll)
     IN  reqs # <<>> /\ \A i \in DOMAIN reqs : reqs[i].status = 200

\* the size of the page the stable collection yields at offset off
PageSize(coll, off) ==
  Len(ServePage(coll, server[coll], ServedLimit(script, coll), off))

\* the number of full pages before the first short one
FullPages(coll) ==
  LET limit == LoopLimit(script, coll)
  IN  CHOOSE k \in 0..(server[coll] + 1) :
        /\ PageSize(coll, k * limit) < limit
        /\ \A j \in 0..(k - 1) : PageSize(coll, j * limit) = limit

\* C1: a pagination loop served k full pages and then a short one issues
\* exactly k+1 requests, at offsets 0, pageSize, ..., k*pageSize in that
\* order, and accumulates the concatenation of the pages in fetch order;
\* when the server pages by the loop's page size that is every item of the
\* collection, once each.
C1_PaginationExhaustive ==
  \A coll \in Collections :
    LoopCompleted(coll) =>
      LET limit == LoopLimit(script, coll)
          k == FullPages(coll)
          reqs == RequestsOf(coll)
      IN  /\ Len(reqs) = k + 1
          /\ \A i \in DOMAIN reqs : reqs[i].offset = (i - 1) * limit
          /\ Accumulated(coll) =
               Flatten([i \in 1..(k + 1) |->
                          FormatPage(script, coll,
                                     ServePage(coll, server[coll],
                                               ServedLimit(script, coll),
                                               (i - 1) * limit))])
          /\ ServedLimit(script, coll) = limit =>
               /\ k = server[coll] \div limit
               /\ Accumulated(coll) =
                    [i \in 1..server[coll] |->
                       FormatItem(script, coll, ServerItem(coll, i))]

\* pages of sizes 5, 5, 5, 3 with page size 5: 18 items in 4 requests
C1_Witness ==
  /\ script = GP
  /\ LoopCompleted("projects")
  /\ server.projects = 3 * ProjectLimit + 3
  /\ Len(allProjects) = 18
  /\ [i \in 1..4 |-> RequestsOf("projects")[i].offset] = <<0, 5, 10, 15>>

\* the path a script exports the items of a pagination loop to
ExportPath(coll) ==
  CASE coll = "projects" -> ProjectListPath
    [] coll = "branches" -> BranchesListPath
    [] OTHER -> ""

\* the content of the export of the items of a pagination loop
Exported(coll) ==
  IF coll = "projects" THEN JsonStringify(allProjects) ELSE allBranches

\* a collection-level page fetch of this run has failed
PageFetchFailed ==
  \E i \in DOMAIN requests :
    requests[i].kind \in Collections /\ requests[i].status # 200

\* C2: a failed collection-level page fetch only ends its pagination loop:
\* it never aborts the run, and a run that then completes has exported the
\* items accumulated from the earlier pages.
C2_PageFailureOnlyEndsLoop ==
  PageFetchFailed =>
    /\ ~(outcome = "aborted" /\ caught.at = "page")
    /\ outcome = "success" =>
         \A coll \in {"projects", "branches"} :
           PageStage(coll) # 0 =>
             files[ExportPath(coll)] = NewFile(Exported(coll))

\* a per-project role-assignment request of this run has failed
ItemFetchFailed ==
  \E i \in DOMAIN requests :
    requests[i].kind = "roles" /\ requests[i].status # 200

\* the last output file a role-assignment script writes
LastOutput ==
  CASE script = UL -> GroupsListJson
    [] script = DL -> DetailsListCsv
    [] OTHER -> ProjectDetailsCsv

\* C3: when the role-assignment request of one project fails, the project
\* is skipped, the loop goes on, and the run still writes its output files.
C3_ItemFailureSkipsProject ==
  ItemFetchFailed =>
    /\ ~(outcome = "aborted" /\ caught.at = "roles")
    /\ outcome = "success" => LastOutput \in written

AllWhiteSpace(t) == \A i \in DOMAIN t : IsWhiteSpace(t[i])

\* a credential field is empty: absent, the empty string or white space only
EmptyField(f) == ~f.present \/ AllWhiteSpace(f.text)

AuthRequests(flow) == { i \in DOMAIN requests : requests[i].kind = flow }

\* C4: with a non-empty password and an empty accesstoken a run issues
\* exactly one request to the password-flow endpoint (once it has resolved
\* its credential) and none to the token-flow endpoint.
C4_OnePasswordRequest ==
  (config.readable /\ ~EmptyField(config.password) /\ EmptyField(config.accesstoken)) =>
    /\ AuthRequests("token") = {}
    /\ Cardinality(AuthRequests("password")) <= 1
    /\ outcome = "success" => Cardinality(AuthRequests("password")) = 1

\* C5: with both credential fields empty, credential resolution fails
\* before any network request: the run issues none, never gets past the
\* credential step and ends in the error of the missing credential.
C5_NoCredentialNoRequest ==
  (config.readable /\ EmptyField(config.password) /\ EmptyField(config.accesstoken)) =>
    /\ requests = <<>>
    /\ outcome # "success"
    /\ Cur.op \in {"check", "readExisting", "config"}
    /\ outcome = "aborted" => caught = [error |-> "NoCredential", at |-> "config"]

\* a white-space-only password and an empty accesstoken: the run has failed
C5_Witness ==
  /\ config.readable
  /\ config.password = Field(<<" ">>)
  /\ EmptyField(config.accesstoken)
  /\ outcome = "aborted"
  /\ caught.error = "NoCredential"
  /\ requests = <<>>

\* the run was aborted by a failure to authenticate
AuthenticationFailed ==
  /\ outcome = "aborted"
  /\ \/ caught.error \in {"NoCredential", "NoToken"}
     \/ caught.error = "HttpError" /\ caught.at = "auth"

\* C6: a run whose authentication fails is aborted with no output file
\* written and no request after the failed authentication.
C6_AuthFailureWritesNothing ==
  AuthenticationFailed =>
    /\ written = {}
    /\ requests # <<>> => requests[Len(requests)].kind \in {"password", "token"}

\* the lower-cased answer is not exactly 'yes' or 'y'
NonAffirmative(answer) ==
  ToLowerCase(answer) # <<"y", "e", "s">> /\ ToLowerCase(answer) # <<"y">>

Declined == \E i \in DOMAIN prompts : NonAffirmative(prompts[i].answer)

\* C7: a run in which some overwrite prompt got a non-affirmative answer
\* deletes no file.
C7_DeclineDeletesNothing == Declined => deleted = {}

\* C8: a run in which some overwrite prompt got a non-affirmative answer
\* ends there: it issues no network request and writes no file.
C8_DeclineNoRequestNoWrite ==
  Declined =>
    /\ outcome = "declined"
    /\ requests = <<>>
    /\ written = {}
    /\ \A p \in Paths : files[p].state # "new"
    /\ NonAffirmative(prompts[Len(prompts)].answer)

\* the second prompt is declined with 'yes ' after the first was accepted
C8_Witness ==
  /\ outcome = "declined"
  /\ Len(prompts) = 2
  /\ prompts[2].answer = <<"y", "e", "s", " ">>
  /\ rlClosed

\* C9: a script writes to a path that existed at the start of the run only
\* after an affirmative answer to a prompt for that path.
C9_NoSilentOverwrite ==
  \A p \in written :
    p \in initial =>
      \E i \in DOMAIN prompts :
        prompts[i].path = p /\ ~NonAffirmative(prompts[i].answer)

\* the projects, the branches and the rows of a finished association
JoinDone == files[OutputCsvPath].state = "new"
JoinProjects == JsonParse(files[ProjectListPath].data)
JoinBranches == files[BranchesListPath].data
JoinRows == files[OutputCsvPath].data

\* the position of branch j among the branches of its own project
RankInProject(j) ==
  Cardinality({ i \in 1..j : JoinBranches[i].project = JoinBranches[j].project })

BranchesOf(id) ==
  Cardinality({ j \in DOMAIN JoinBranches : JoinBranches[j].project = id })

\* the maximum number of branches of any project record, 0 without records
MostBranches ==
  LET counts == { BranchesOf(JoinProjects[i].id) : i \in DOMAIN JoinProjects }
  IN  IF counts = {} THEN 0 ELSE CHOOSE m \in counts : \A c \in counts : c <= m

\* C11: the header of projectBranches.csv is projectName followed by
\* branchName1..branchNameM, M the maximum number of branches of any project
\* record (0 without records or branches); every row has M branch cells, a
\* record's own branches fill the first ones and the rest are blank, and no
\* record has more branches than the header has columns.
C11_HeaderIsMaximum ==
  JoinDone =>
    /\ files[OutputCsvPath].fields =
         <<ProjectNameField>> \o [i \in 1..MostBranches |-> BranchField(i)]
    /\ \A r \in DOMAIN JoinRows :
         LET n == BranchesOf(MapKeys(JoinProjects)[r])
         IN  /\ n <= MostBranches
             /\ Len(JoinRows[r].cells) = MostBranches
             /\ \A c \in 1..MostBranches : JoinRows[r].cells[c].blank <=> c > n

\* two records, the second with two branches and the first with one: the
\* header has two branch columns and the first row a blank second cell
C11_Witness ==
  /\ JoinDone
  /\ Len(JoinRows) = 2
  /\ Len(files[OutputCsvPath].fields) = 3
  /\ ~JoinRows[1].cells[1].blank /\ JoinRows[1].cells[2].blank
  /\ ~JoinRows[2].cells[1].blank /\ ~JoinRows[2].cells[2].blank

\* no two entries of projectList.json share an identifier
DistinctIds ==
  \A i, j \in DOMAIN JoinProjects :
    i # j => JoinProjects[i].id # JoinProjects[j].id

\* C12: the rows of projectBranches.csv are in the order in which the
\* projects occur in projectList.json, whatever the identifier strings are.
C12_SourceOrder ==
  (JoinDone /\ DistinctIds) =>
    /\ Len(JoinRows) = Len(JoinProjects)
    /\ \A r \in DOMAIN JoinRows : JoinRows[r].projectName = JoinProjects[r].name

\* two project sequences have the same length and, position by position,
\* the same identifier and the same properties mapping
SameProjects(read, kept) ==
  /\ Len(read) = Len(kept)
  /\ \A i \in DOMAIN read :
       /\ read[i].id = kept[i].id
       /\ read[i].properties = kept[i].properties

\* the step at which setProjectProperties reads projectList.json
ReadStage == CHOOSE k \in DOMAIN Stages(SP) : Stages(SP)[k].op = "readProjects"

PagesFetched ==
  Len(SelectSeq(requests, LAMBDA r : r.kind = "projects" /\ r.status = 200))

\* C14: in getProjectProperties every fetched project yields a record; its
\* properties are the remote project's when that mapping has a key and the
\* placeholder pair when the remote project has an empty mapping or none,
\* and the run does not fail on a project without properties.
C14_PlaceholderProperties ==
  script = GP =>
    /\ ~(outcome = "aborted" /\ caught.error = "TypeError")
    /\ Len(allProjects) = Min(server.projects, PagesFetched * ProjectLimit)
    /\ \A i \in DOMAIN allProjects :
         LET remote == ServerItem("projects", i)
         IN  allProjects[i].properties =
               IF HasProperties(remote) /\ Len(remote.properties) > 0
               THEN remote.properties
               ELSE Placeholder

\* the text of s before its first character c, all of s when it has none
RECURSIVE Before(_, _)
Before(s, c) ==
  IF s = <<>> \/ Head(s) = c THEN <<>> ELSE <<Head(s)>> \o Before(Tail(s), c)

\* the set-cookie entries that begin with 'access_token='
TokenCookies(resp) ==
  IF resp.cookies.present
  THEN SelectSeq(resp.cookies.list, LAMBDA c : StartsWith(c, AccessTokenPrefix))
  ELSE <<>>

\* the text between 'access_token=' and the next ';' of the first such entry
CookieText(resp) ==
  LET entry == TokenCookies(resp)[1]
  IN  Before(SubSeq(entry, Len(AccessTokenPrefix) + 1, Len(entry)), ";")

\* the jwt field of the response body, <<>> when there is none
BodyJwt(resp) == IF resp.jwt.present THEN resp.jwt.text ELSE <<>>

\* the last request of the run is an authentication request that the API
\* accepted
Authenticated ==
  /\ requests # <<>>
  /\ requests[Len(requests)].kind \in {"password", "token"}
  /\ ValidateStatus(requests[Len(requests)].status)

\* C15: the bearer token is exactly the text between 'access_token=' and
\* the next ';' of the set-cookie entry that begins with 'access_token='
\* (the whole remainder without ';'), also when that text contains '='; the
\* jwt field of the body is used only when no such cookie yields a token,
\* and without either the run fails for want of a token.
C15_TokenFromCookie ==
  Authenticated =>
    LET resp == requests[Len(requests)]
        expected == IF TokenCookies(resp) # <<>> /\ CookieText(resp) # <<>>
                    THEN CookieText(resp)
                    ELSE BodyJwt(resp)
    IN  IF expected = <<>>
        THEN outcome = "aborted" /\ caught.error = "NoToken"
        ELSE token = expected

IsAuthRequest(r) == r.kind \in {"password", "token"}

\* C16: a run obtains a credential at most once, and every authentication
\* request precedes every collection or per-item request of the run.
C16_LinearControlFlow ==
  /\ Len(SelectSeq(requests, IsAuthRequest)) <= 1
  /\ \A i, j \in DOMAIN requests :
       (i < j /\ IsAuthRequest(requests[j])) => IsAuthRequest(requests[i])

\* C17: a pagination loop that runs to its end over a stable collection
\* returns every item of the collection, in the collection's order,
\* whatever page size the endpoint is asked to use.
C17_PageSizeIndependent ==
  \A coll \in Collections :
    LoopCompleted(coll) =>
      Accumulated(coll) =
        [i \in 1..server[coll] |-> FormatItem(script, coll, ServerItem(coll, i))]

\* the user and the group resources a project's role assignments include
IncludedUsers(pid) == SelectSeq(Included(pid), IsUserResource)
IncludedGroups(pid) == SelectSeq(Included(pid), IsGroupResource)

\* the projects whose role-assignment request was answered with status 200
Correlated ==
  { requests[i].target :
      i \in { j \in DOMAIN requests :
                requests[j].kind = "roles" /\ requests[j].status = 200 } }

\* the user resource of a project that a usersList record was made from
ResourceOf(rec) ==
  LET users == IncludedUsers(rec.projectId)
  IN  users[CHOOSE k \in DOMAIN users : users[k].name = rec.name]

\* the first entry of the user's groups relationship identifies an included
\* group resource
FirstGroupIncluded(pid, user) ==
  /\ user.groups # <<>>
  /\ \E g \in DOMAIN IncludedGroups(pid) :
       IncludedGroups(pid)[g].id = user.groups[1]

\* the individual users of a project: the user resources without a groups
\* entry, in the order of the response
Ungrouped(pid) ==
  LET lone == SelectSeq(IncludedUsers(pid), LAMBDA u : u.groups = <<>>)
  IN  [i \in DOMAIN lone |-> [name |-> lone[i].name, email |-> lone[i].email]]

\* C18 as stated: a user-type resource is marked as an individual ('N/A')
\* if and only if its groups relationship is empty.
C18_IndividualIffEmpty ==
  /\ script = UL =>
       \A i \in DOMAIN allDetails :
         (allDetails[i].group = "N/A") <=> (ResourceOf(allDetails[i]).groups = <<>>)
  /\ script = PD =>
       \A i \in DOMAIN allDetails :
         allDetails[i].individualUsers = Ungrouped(allDetails[i].projectId)

\* C18, amended: a user-type resource is classified from the first entry of
\* its groups relationship only.  getProjectUserInformation lists it as an
\* individual if and only if the relationship is empty.  usersList marks it
\* 'N/A' if and only if the relationship is empty or no included group
\* resource has the identifier of the first entry, and otherwise gives it
\* the name of the first included group with that identifier, whatever
\* further entries follow.
C18_FirstEntryClassifies ==
  /\ script = UL =>
       \A i \in DOMAIN allDetails :
         LET rec == allDetails[i]
             user == ResourceOf(rec)
             groups == IncludedGroups(rec.projectId)
         IN  /\ (rec.group = "N/A") <=> ~FirstGroupIncluded(rec.projectId, user)
             /\ FirstGroupIncluded(rec.projectId, user) =>
                  \E g \in DOMAIN groups :
                    /\ groups[g].id = user.groups[1]
                    /\ \A h \in 1..(g - 1) : groups[h].id # user.groups[1]
                    /\ rec.group = groups[g].name
  /\ script = PD =>
       \A i \in DOMAIN allDetails :
         allDetails[i].individualUsers = Ungrouped(allDetails[i].projectId)

\* usersList has correlated a user whose first group is included, a user
\* without groups, and a user whose first group is not included while a
\* further one is
C18_Witness ==
  /\ script = UL
  /\ \E i, j, k \in DOMAIN allDetails :
       /\ allDetails[i].group = "Group1"
       /\ Len(ResourceOf(allDetails[i]).groups) = 1
       /\ allDetails[j].group = "N/A"
       /\ ResourceOf(allDetails[j]).groups = <<>>
       /\ allDetails[k].group = "N/A"
       /\ Len(ResourceOf(allDetails[k]).groups) = 2
       /\ \E g \in DOMAIN IncludedGroups(allDetails[k].projectId) :
            IncludedGroups(allDetails[k].projectId)[g].id =
              ResourceOf(allDetails[k]).groups[2]

\* the user is reported for the project as an ungrouped (individual) user
ReportedUngrouped(pid, user) ==
  IF script = UL
  THEN \E i \in DOMAIN allDetails :
         /\ allDetails[i].projectId = pid
         /\ allDetails[i].name = user.name
         /\ allDetails[i].group = "N/A"
  ELSE \E i \in DOMAIN allDetails :
         /\ allDetails[i].projectId = pid
         /\ \E k \in DOMAIN allDetails[i].individualUsers :
              allDetails[i].individualUsers[k].name = user.name

\* C19: a user of a project's role-assignment response whose group is not
\* among the included resources of that response is not lost: the output
\* reports the user for the project, as an ungrouped user.
C19_MissingGroupUngrouped ==
  script \in {UL, PD} =>
    \A pid \in Correlated :
      \A u \in DOMAIN IncludedUsers(pid) :
        LET user == IncludedUsers(pid)[u]
        IN  (user.groups # <<>> /\ ~FirstGroupIncluded(pid, user)) =>
              ReportedUngrouped(pid, user)

\* C20: each project-level CSV export has exactly one row per top-level
\* record, in record order: projectList.csv one row per fetched project,
\* projectBranches.csv one row per project entry of projectList.json, also
\* when two entries share an identifier.
C20_OneRowPerRecord ==
  /\ (script = GP /\ ProjectListCsv \in written) =>
       /\ Len(files[ProjectListCsv].data) = Len(allProjects)
       /\ \A r \in DOMAIN allProjects :
            files[ProjectListCsv].data[r].id = allProjects[r].id
  /\ JoinDone =>
       /\ Len(JoinRows) = Len(JoinProjects)
       /\ \A r \in DOMAIN JoinRows :
            r <= Len(JoinProjects) => JoinRows[r].projectName = JoinProjects[r].name


\* the group identifiers of the remote API, and one that no user holds
GroupIds == {"g1", "g2", "g3"}

\* the user listing of getProjectUserInformation has ended
UsersFetched == script = PD /\ stage > PageStage("users")

\* the fetched users whose groupIds include g, in fetch order
UsersOfGroup(g) ==
  SelectSeq(allUsers, LAMBDA u : \E k \in DOMAIN u.groupIds : u.groupIds[k] = g)

PagesReceived(coll, n) ==
  Cardinality({ j \in 1..n : RequestsOf(coll)[j].status = 200 })

\* control is in the pagination loop over coll or just past it
InOrAfterLoop(coll) ==
  PageStage(coll) # 0 /\ stage \in {PageStage(coll), PageStage(coll) + 1}

\* C22: in every pagination loop the offset starts at 0 and grows by the
\* page size with each page received with status 200 and by nothing else:
\* every request carries the page size times the number of pages received
\* before it, the offsets of successive requests of a loop increase
\* strictly, and while the run is not aborted the offset variable is the
\* page size times the number of pages received.
C22_OffsetInvariant ==
  \A coll \in Collections :
    LET limit == LoopLimit(script, coll)
        reqs == RequestsOf(coll)
    IN  /\ \A i \in DOMAIN reqs : reqs[i].offset = limit * PagesReceived(coll, i - 1)
        /\ \A i, j \in DOMAIN reqs : i < j => reqs[i].offset < reqs[j].offset
        /\ reqs # <<>> => reqs[1].offset = 0
        /\ (InOrAfterLoop(coll) /\ outcome # "aborted") =>
             offset = limit * PagesReceived(coll, Len(reqs))

\* getProjectUserInformation after four project pages and two user pages:
\* the user loop ran from offset 0 again
C22_Witness ==
  /\ script = PD
  /\ [i \in 1..Len(RequestsOf("projects")) |-> RequestsOf("projects")[i].offset]
       = <<0, 5, 10, 15>>
  /\ [i \in 1..Len(RequestsOf("users")) |-> RequestsOf("users")[i].offset] = <<0, 50>>
  /\ offset = 2 * UserLimit
  /\ stage = PageStage("users") + 1


\* the run has ended: the script returned, completed or was aborted
Terminated == outcome \in {"success", "declined", "aborted"}

\* the scripts that prompt the operator
PromptingScripts == Scripts \ {SP}

\* C23: every run ends (success, a declined prompt or an abort) when the
\* operator answers, the requests complete and every paginated endpoint
\* eventually yields a page that is not full or an error; a prompting script
\* that has ended has closed its prompt interface.
C23_Terminates ==
  /\ <>Terminated
  /\ [](Terminated => (script \in PromptingScripts => rlClosed))

\* getProjectUserInformation has run to its end over four project pages
\* and two user pages and closed the prompt interface
C23_Witness ==
  /\ script = PD
  /\ outcome = "success"
  /\ rlClosed
  /\ Len(RequestsOf("projects")) = MaxFullPages + 1
  /\ Len(RequestsOf("users")) = MaxLargePages + 1


\* the step of setProjectProperties that posts the properties
PostStage == CHOOSE k \in DOMAIN Stages(SP) : Stages(SP)[k].op = "setProps"

\* the property-set POSTs of the run, in order
Posts == RequestsOf("setProperty")

\* C24: setProjectProperties posts only after a successful authentication,
\* one POST per entry of projectList.json, in file order, each with the
\* entry's identifier and properties; a POST that fails (a status other
\* than 200 or a rejected request) does not abort the run, and a run that
\* completes has posted for every entry.
C24_OnePostPerEntry ==
  script = SP =>
    LET entries == JsonParse(files[ProjectListPath].data)
    IN  /\ Posts # <<>> =>
             /\ IsAuthRequest(requests[1])
             /\ ValidateStatus(requests[1].status)
             /\ token # <<>>
             /\ Len(SelectSeq(requests, IsAuthRequest)) = 1
        /\ Len(Posts) <= Len(entries)
        /\ \A i \in DOMAIN Posts :
             /\ Posts[i].target = entries[i].id
             /\ Posts[i].properties = entries[i].properties
        /\ (stage = PostStage /\ outcome = "running") => Len(Posts) = idx - 1
        /\ ~(outcome = "aborted" /\ caught.at = "setProps")
        /\ outcome = "success" => Len(Posts) = Len(entries)

\* two entries: the POST for the first was rejected with status 500, the
\* POST for the second was sent all the same and the run completed
C24_Witness ==
  /\ script = SP
  /\ outcome = "success"
  /\ Len(Posts) = 2
  /\ Posts[1].status = 500
  /\ Posts[2].status = 200
  /\ Posts[1].properties # Posts[2].properties


\* a branch page request of fetchBranches was rejected
BranchPageFailed ==
  /\ script = FB
  /\ \E i \in DOMAIN RequestsOf("branches") :
       ~ValidateStatus(RequestsOf("branches")[i].status)

\* the step at which fetchBranches writes branchesList.json
BranchWriteStage ==
  CHOOSE k \in DOMAIN Stages(FB) : Stages(FB)[k] = St("write", BranchesListPath)

\* the branches of the pages the API served for the first k branch requests
BranchPages(k) ==
  Flatten([i \in 1..k |->
             ServePage("branches", server.branches, server.branchLimit,
                       RequestsOf("branches")[i].offset)])

\* C25: in fetchBranches a rejected request for page k, after pages 0..k-1
\* came with status 200, ends the loop without aborting the run:
\* branchesList.json is written with exactly the branches of pages 0..k-1
\* in fetch order, and the association is then computed from that partial
\* list.
C25_PartialBranchList ==
  BranchPageFailed =>
    LET reqs == RequestsOf("branches")
        k == Len(reqs) - 1
    IN  /\ \A i \in 1..k : reqs[i].status = 200
        /\ outcome # "aborted"
        /\ allBranches = BranchPages(k)
        /\ stage > BranchWriteStage =>
             files[BranchesListPath] = NewFile(BranchPages(k))
        /\ outcome = "success" =>
             /\ files[BranchesListPath] = NewFile(BranchPages(k))
             /\ files[ProjectListPath].state # "absent" =>
                  files[OutputCsvPath] =
                    CsvFile(AssociateFields(JsonParse(files[ProjectListPath].data),
                                            BranchPages(k)),
                            AssociateRows(JsonParse(files[ProjectListPath].data),
                                          BranchPages(k)))

\* the second page request was rejected after a first page of 500 branches:
\* branchesList.json holds the 500 and projectBranches.csv was written
C25_Witness ==
  /\ script = FB
  /\ outcome = "success"
  /\ [i \in 1..Len(RequestsOf("branches")) |-> RequestsOf("branches")[i].status]
       = <<200, 500>>
  /\ Len(files[BranchesListPath].data) = BranchLimit
  /\ files[OutputCsvPath].state = "new"
  /\ Len(files[OutputCsvPath].data) = MaxOldProjects


\* the paths a script checks for an existing file, and prompts for
CheckedPaths(s) ==
  { Stages(s)[k].arg : k \in { j \in DOMAIN Stages(s) : Stages(s)[j].op = "check" } }

\* the run is past its existence checks: it has read the configuration
PastChecks == stage > Len(Stages(script)) \/ Cur.op # "check"

\* C26: a prompting script deletes the existing output files before it
\* reads the configuration and before the authentication request (past the
\* checks every checked file that existed is deleted already, and nothing
\* is deleted later); a run that then fails ends with each deleted file
\* absent: deleted and not recreated.
C26_DeletedAndNotRecreated ==
  script \in PromptingScripts =>
    /\ ~PastChecks => (requests = <<>> /\ authFlow = "none")
    /\ PastChecks => deleted = initial \cap CheckedPaths(script)
    /\ outcome = "aborted" => \A p \in deleted : files[p].state = "absent"


\* the remote project has a properties mapping without keys
EmptyRemote(id) == ServerProject(id.n).properties = <<>>

\* C27: the placeholder leaks from phase one to phase two.  The
\* projectList.json getProjectProperties writes is the list of the fetched
\* projects with the pair key/value in place of every empty remote mapping,
\* and setProjectProperties, run on that unedited file, posts for every
\* such project the properties {key: "value"}, which are not the remote
\* project's.
C27_PlaceholderLeak ==
  /\ (script = GP /\ ProjectListPath \in written) =>
       /\ files[ProjectListPath].data = JsonStringify(OldProjects(Len(allProjects)))
       /\ \A i \in DOMAIN allProjects :
            EmptyRemote(allProjects[i].id) => allProjects[i].properties = Placeholder
  /\ script = SP =>
       /\ \A i \in DOMAIN Posts :
            EmptyRemote(Posts[i].target) =>
              /\ Posts[i].properties = << <<"key", "value">> >>
              /\ Posts[i].properties # ServerProject(Posts[i].target.n).properties
       /\ outcome = "success" =>
            \A e \in DOMAIN allProjects :
              EmptyRemote(allProjects[e].id) =>
                \E i \in DOMAIN Posts : Posts[i].target = allProjects[e].id

\* phase two has posted {key: "value"} for a project whose remote mapping
\* is empty, and the API accepted it
C27_Witness ==
  /\ script = SP
  /\ \E i \in DOMAIN Posts :
       /\ EmptyRemote(Posts[i].target)
       /\ Posts[i].properties = << <<"key", "value">> >>
       /\ Posts[i].status = 200


\* projectList.json existed when the run started
ListExisted == ProjectListPath \in initial

\* C28: the detailsList script never prompts and never deletes.  When
\* projectList.json exists at start the projects are those of the file: no
\* project-listing request is issued, the file is neither deleted nor
\* rewritten, and the run authenticates once.  Projects are fetched and
\* projectList.json is written only when the file was absent, and then a
\* run that completes has done both.
C28_ExistingListReused ==
  script = DL =>
    /\ prompts = <<>>
    /\ deleted = {}
    /\ ListExisted =>
         /\ RequestsOf("projects") = <<>>
         /\ ProjectListPath \notin written
         /\ files[ProjectListPath].state = "old"
         /\ stage >= DetailsSecondConfig =>
              allProjects = JsonParse(files[ProjectListPath].data)
         /\ Len(SelectSeq(requests, IsAuthRequest)) <= 1
         /\ outcome = "success" => Len(SelectSeq(requests, IsAuthRequest)) = 1
    /\ (RequestsOf("projects") # <<>> \/ ProjectListPath \in written) => ~ListExisted
    /\ (~ListExisted /\ outcome = "success") =>
         /\ RequestsOf("projects") # <<>>
         /\ ProjectListPath \in written

\* a run over an existing projectList.json of two projects has completed:
\* one authentication, a role-assignment request for each project
C28_Witness ==
  /\ script = DL
  /\ ListExisted
  /\ outcome = "success"
  /\ Len(allProjects) = MaxOldProjects
  /\ Len(RequestsOf("roles")) = MaxOldProjects
  /\ Len(requests) = MaxOldProjects + 1
  /\ DetailsListCsv \in written


\* the rows of projectDetails.csv that belong to the project
RowsOfProject(pid) ==
  { r \in DOMAIN files[ProjectDetailsCsv].data :
      files[ProjectDetailsCsv].data[r].projectId = pid }

\* C29: in getProjectUserInformation every project whose role-assignment
\* request was answered with status 200 has at least one row in
\* projectDetails.csv, also a project whose groups have no known members
\* and which has no individual users.
C29_EveryProjectHasRow ==
  (script = PD /\ ProjectDetailsCsv \in written) =>
    \A pid \in Correlated : RowsOfProject(pid) # {}


\* the role-assignment requests that were answered with status 200
RolesReceived ==
  SelectSeq(requests, LAMBDA r : r.kind = "roles" /\ r.status = 200)

\* the names of the group resources of those responses, response by
\* response and in the order of each response
GroupOccurrences ==
  Flatten([i \in DOMAIN RolesReceived |->
             [g \in DOMAIN IncludedGroups(RolesReceived[i].target) |->
                IncludedGroups(RolesReceived[i].target)[g].name]])

\* the position at which a name first occurs
FirstOccurrence(name) ==
  CHOOSE i \in DOMAIN GroupOccurrences :
    /\ GroupOccurrences[i] = name
    /\ \A j \in 1..(i - 1) : GroupOccurrences[j] # name

\* C30: the groupsList.json of the usersList script holds each group name
\* once, holds exactly the names of the group resources of the responses
\* that came with status 200, and lists them in the order of their first
\* occurrence across the projects.
C30_UniqueGroupsInOrder ==
  (script = UL /\ GroupsListJson \in written) =>
    LET names == files[GroupsListJson].data
    IN  /\ \A i, j \in DOMAIN names : i # j => names[i] # names[j]
        /\ { names[i] : i \in DOMAIN names } =
             { GroupOccurrences[k] : k \in DOMAIN GroupOccurrences }
        /\ \A i, j \in DOMAIN names :
             i < j => FirstOccurrence(names[i]) < FirstOccurrence(names[j])

\* three projects: Group1 occurs in all three responses and Group2 in the
\* third, before the third Group1; each name is listed once, Group1 first
C30_Witness ==
  /\ script = UL
  /\ GroupsListJson \in written
  /\ GroupOccurrences = <<"Group1", "Group1", "Group2", "Group1">>
  /\ files[GroupsListJson].data = <<"Group1", "Group2">>

====
